---- MODULE Spec2Model ----
(***************************************************************************)
(* Model of the Stackdriver Python client: RestApi (restapi.py) and the    *)
(* dynamic resource layer AnonStackInterface / AnonStackObject / StackApi  *)
(* (stackapi.py).                                                          *)
(*                                                                         *)
(* Python strings are sequences of one-character strings, so that split,   *)
(* lower, upper, isupper, islower and startswith are computed.  Python     *)
(* values are tagged records: None, str, int.                              *)
(***************************************************************************)
EXTENDS Integers, Sequences, FiniteSets, TLC

(***************************************************************************)
(* Bounds of the exploration                                               *)
(***************************************************************************)
\* deepest chain of nested interfaces ApiRoot.A.B...
MaxDepth == 2
\* longest list a response envelope carries in `data`
MaxList == 2
\* most calls a transport controller makes to the wrapped verb in one call
MaxRetry == 2

(***************************************************************************)
(* Python values                                                           *)
(***************************************************************************)
NoneV == [t |-> "none"]

StrV(s) == [t |-> "str", s |-> s]

IntV(n) == [t |-> "int", n |-> n]

\* truth value of a Python object: None, '' and 0 are false
Truthy(v) ==
    CASE v.t = "none" -> FALSE
      [] v.t = "str" -> v.s # <<>>
      [] v.t = "int" -> v.n # 0

\* dict.get(key) with the default None
DictGet(d, k) == IF k \in DOMAIN d THEN d[k] ELSE NoneV

\* the empty dict
EmptyDict == [k \in {} |-> NoneV]

\* d after d[k] = v
DictSet(d, k, v) == [x \in DOMAIN d \cup {k} |-> IF x = k THEN v ELSE d[x]]

\* d after "for key, value in data.iteritems(): d[key] = value"
DictMerge(d, data) ==
    [x \in DOMAIN d \cup DOMAIN data |-> IF x \in DOMAIN data THEN data[x] ELSE d[x]]

(***************************************************************************)
(* Python str methods                                                      *)
(***************************************************************************)
UpperChars == {"A", "B", "C"}

LowerChars == {"a", "b", "c", "x"}

Whitespace == {" "}

CharLower(c) ==
    CASE c = "A" -> "a"
      [] c = "B" -> "b"
      [] c = "C" -> "c"
      [] OTHER -> c

CharUpper(c) ==
    CASE c = "a" -> "A"
      [] c = "b" -> "B"
      [] c = "c" -> "C"
      [] c = "x" -> "X"
      [] OTHER -> c

\* str.lower()
StrLower(s) == [i \in 1..Len(s) |-> CharLower(s[i])]

\* str.upper()
StrUpper(s) == [i \in 1..Len(s) |-> CharUpper(s[i])]

\* str.isupper(): no lowercase character and at least one cased character
StrIsUpper(s) ==
    /\ \A i \in 1..Len(s) : s[i] \notin LowerChars
    /\ \E i \in 1..Len(s) : s[i] \in UpperChars

\* str.islower(): no uppercase character and at least one cased character
StrIsLower(s) ==
    /\ \A i \in 1..Len(s) : s[i] \notin UpperChars
    /\ \E i \in 1..Len(s) : s[i] \in LowerChars

\* str.startswith(c) for a one-character prefix
StartsWith(s, c) == Len(s) >= 1 /\ s[1] = c

\* s[1:]
Tail1(s) == IF s = <<>> THEN <<>> ELSE Tail(s)

\* str.rstrip()
RECURSIVE RStrip(_)
RStrip(s) ==
    IF s = <<>> THEN <<>>
    ELSE IF s[Len(s)] \in Whitespace THEN RStrip(SubSeq(s, 1, Len(s) - 1))
    ELSE s

\* str.split('/'): always at least one part
RECURSIVE SplitSlash(_, _)
SplitSlash(s, cur) ==
    IF s = <<>> THEN <<cur>>
    ELSE IF Head(s) = "/" THEN <<cur>> \o SplitSlash(Tail(s), <<>>)
    ELSE SplitSlash(Tail(s), Append(cur, Head(s)))

\* '%s' % v
RECURSIVE Digits(_)
Digits(n) ==
    LET d == CASE n % 10 = 0 -> "0" [] n % 10 = 1 -> "1" [] n % 10 = 2 -> "2"
                [] n % 10 = 3 -> "3" [] n % 10 = 4 -> "4" [] n % 10 = 5 -> "5"
                [] n % 10 = 6 -> "6" [] n % 10 = 7 -> "7" [] n % 10 = 8 -> "8"
                [] OTHER -> "9"
    IN IF n < 10 THEN <<d>> ELSE Append(Digits(n \div 10), d)

Format(v) ==
    CASE v.t = "str" -> v.s
      [] v.t = "int" -> Digits(v.n)
      [] v.t = "none" -> <<"N", "o", "n", "e">>

(***************************************************************************)
(* restapi.py                                                              *)
(***************************************************************************)
\* a headers argument or a request body: None or a dict
NoDict == [t |-> "none"]

DictV(d) == [t |-> "dict", d |-> d]

\* attribute names of a RestApi instance, as dir(self) lists them
n_get == <<"g", "e", "t">>

n_post == <<"p", "o", "s", "t">>

n_put == <<"p", "u", "t">>

n_delete == <<"d", "e", "l", "e", "t", "e">>

n_api_version == <<"a", "p", "i", "_", "v", "e", "r", "s", "i", "o", "n">>

n_entrypoint == <<"e", "n", "t", "r", "y", "p", "o", "i", "n", "t">>

n_merge_headers == <<"_", "m", "e", "r", "g", "e", "_", "h", "e", "a", "d", "e", "r", "s">>

n_gen_full_endpoint == <<"_", "g", "e", "n">>

n_decorate == <<"_", "d", "e", "c", "o", "r", "a", "t", "e">>

n_apikey == <<"_", "a", "p", "i", "k", "e", "y">>

\* the members of a RestApi instance: bound methods, properties and data;
\* layers counts the transport decorators put around a bound method
RestApiMembers ==
    [n \in {n_get, n_post, n_put, n_delete, n_api_version, n_entrypoint,
            n_merge_headers, n_gen_full_endpoint, n_decorate, n_apikey} |->
        [kind |-> IF n \in {n_api_version, n_entrypoint} THEN "property"
                  ELSE IF n = n_apikey THEN "data" ELSE "method",
         layers |-> 0]]

\* setattr(self, method_name, _wrap_transport_decorator(method, controller, userdata))
_wrap_transport_decorator(member) == [member EXCEPT !.layers = @ + 1]

\* a decoration that goes over the public methods twice
DecorateTwice(members) ==
    [n \in DOMAIN members |->
        IF StartsWith(n, "_") \/ members[n].kind # "method" THEN members[n]
        ELSE _wrap_transport_decorator(_wrap_transport_decorator(members[n]))]

\* RestApi._decorate_transport_funcs
_decorate_transport_funcs(members) ==
    [n \in DOMAIN members |->
        IF StartsWith(n, "_") THEN members[n]
        ELSE IF members[n].kind = "method" THEN _wrap_transport_decorator(members[n])
             ELSE members[n]]

\* str.strip()
RECURSIVE LStrip(_)
LStrip(s) ==
    IF s = <<>> THEN <<>>
    ELSE IF Head(s) \in Whitespace THEN LStrip(Tail(s)) ELSE s

\* "if entrypoint_uri[-1] != '/': entrypoint_uri += '/'"
EndWithSlash(u) == IF u[Len(u)] # "/" THEN Append(u, "/") ELSE u

NormaliseEntrypoint(uri) == EndWithSlash(RStrip(LStrip(uri)))

\* RestApi.__init__
RestApi(entrypoint_uri, version, apikey, useragent, transport_controller, transport_userdata) ==
    [entrypoint |-> NormaliseEntrypoint(entrypoint_uri),
     apikey |-> apikey,
     version |-> version,
     useragent |-> useragent,
     controller |-> transport_controller,
     userdata |-> transport_userdata,
     members |-> IF transport_controller
                 THEN _decorate_transport_funcs(RestApiMembers)
                 ELSE RestApiMembers]

\* the dicts of _merge_headers: the caller's (heap.caller) and the one made
\* in the call (heap.local); ref names the dict the local `headers` is
HeadersStart(extra) ==
    [heap |-> [caller |-> IF extra.t = "dict" THEN extra.d ELSE EmptyDict,
               local |-> EmptyDict],
     ref |-> "local"]

\* headers = extra: the same dict object, not a copy
AliasCopy(hr) == [hr EXCEPT !.ref = "caller"]

\* headers = copy.copy(extra): a new dict object with the same items
copy_copy(hr) == [hr EXCEPT !.heap.local = hr.heap.caller, !.ref = "local"]

\* headers[k] = v
HeapStore(hr, k, v) == [hr EXCEPT !.heap[hr.ref] = DictSet(@, k, v)]

StoreIf(cond, hr, k, v) == IF cond THEN HeapStore(hr, k, v) ELSE hr

CopyIf(cond, hr) == IF cond THEN copy_copy(hr) ELSE hr

MergeResult(extra, hr) ==
    [headers |-> hr.heap[hr.ref],
     extra |-> IF extra.t = "dict" THEN DictV(hr.heap.caller) ELSE extra]

\* RestApi._merge_headers; gives the merged headers and the caller's mapping
\* as it is after the call
_merge_headers(self, extra, is_post) ==
    MergeResult(extra,
        StoreIf(Truthy(self.useragent),
            StoreIf(is_post,
                StoreIf(is_post,
                    HeapStore(
                        StoreIf(Truthy(self.apikey),
                            CopyIf(extra.t # "none", HeadersStart(extra)),
                            "x-stackdriver-apikey", self.apikey),
                        "x-stackdriver-version", StrV(self.version)),
                    "accept", StrV(<<"j">>)),
                "content-type", StrV(<<"j">>)),
            "user-agent", self.useragent))

\* RestApi._gen_full_endpoint
_gen_full_endpoint(self, endpoint_path) ==
    self.entrypoint \o (IF StartsWith(endpoint_path, "/") THEN Tail(endpoint_path)
                        ELSE endpoint_path)

\* the request an undecorated verb (get, post, put, delete) makes
Request(self, verb, endpoint, body, headers) ==
    [verb |-> verb, uri |-> _gen_full_endpoint(self, endpoint), body |-> body,
     headers |-> _merge_headers(self, headers, verb # n_get).headers]

\* s repeated k times
RECURSIVE Repeat(_, _)
Repeat(s, k) == IF k = 0 THEN <<>> ELSE s \o Repeat(s, k - 1)

\* inner(*args, **kwargs) of _wrap_transport_decorator: the controller is
\* called with the function under this decorator, and calls it k times
Decorated(self, verb, layer, endpoint, body, headers, k, under) ==
    [ctl |-> <<[transport_func |-> [verb |-> verb, layers |-> layer - 1],
                userdata |-> self.userdata,
                func_args |-> <<endpoint>>,
                func_kwargs |-> [body |-> body, headers |-> headers]]>>
             \o Repeat(under.ctl, k),
     net |-> Repeat(under.net, k)]

\* calling the function that has `layer` decorators around the bound verb
RECURSIVE CallLayer(_, _, _, _, _, _, _)
CallLayer(self, verb, layer, endpoint, body, headers, k) ==
    IF layer = 0
    THEN [ctl |-> <<>>, net |-> <<Request(self, verb, endpoint, body, headers)>>]
    ELSE Decorated(self, verb, layer, endpoint, body, headers, k,
                   CallLayer(self, verb, layer - 1, endpoint, body, headers, k))

\* what one call of a verb leaves behind: the call, the controller's
\* invocations, the requests, and the caller's headers mapping
Called(self, verb, endpoint, body, headers, r) ==
    [calls |-> <<[verb |-> verb, endpoint |-> endpoint, body |-> body, headers |-> headers]>>,
     ctl |-> r.ctl,
     net |-> r.net,
     hdrOut |-> IF r.net = <<>> THEN headers
                ELSE _merge_headers(self, headers, verb # n_get).extra]

\* self._rest_client.<verb>(endpoint, ..., headers=headers) as the resource
\* layer calls it: through the instance attribute, decorated or not
CallVerb(self, verb, endpoint, body, headers, k) ==
    Called(self, verb, endpoint, body, headers,
           CallLayer(self, verb, self.members[verb].layers, endpoint, body, headers, k))

\* an operation that calls no verb
NoCall(headers) == [calls |-> <<>>, ctl |-> <<>>, net |-> <<>>, hdrOut |-> headers]

(***************************************************************************)
(* stackapi.py: AnonStackInterface, AnonStackObject                        *)
(***************************************************************************)
Slash == <<"/">>

\* an __init__ that drops the prefix of the parent interface
InterfaceWithoutPrefix(rest_class, endpoint_prefix) ==
    [kind |-> "iface",
     rest_class |-> rest_class,
     endpoint |-> StrLower(rest_class) \o Slash]

\* AnonStackInterface.__init__
AnonStackInterface(rest_class, endpoint_prefix) ==
    [kind |-> "iface",
     rest_class |-> rest_class,
     endpoint |-> endpoint_prefix \o StrLower(rest_class) \o Slash]

\* AnonStackObject.__init__: the items of data are copied into the mapping,
\* then AnonStackInterface.__init__(rest_class, client) runs without a prefix.
\* fields is the dict the object is; attrs is what the instance holds as plain
\* attributes besides _rest_class, _endpoint and _rest_client
AnonStackObject(rest_class, data) ==
    [kind |-> "obj",
     rest_class |-> rest_class,
     endpoint |-> StrLower(rest_class) \o Slash,
     fields |-> DictMerge(EmptyDict, data),
     attrs |-> EmptyDict]

\* "if not parts[-1].rstrip(): del parts[-1]"
DropBlankLast(parts) ==
    IF RStrip(parts[Len(parts)]) = <<>> THEN SubSeq(parts, 1, Len(parts) - 1) ELSE parts

\* "cls = parts[-2]; cls = cls[0].upper() + cls[1:].lower()": parts[-2] and
\* cls[0] raise IndexError when out of range
ClassOfParts(parts) ==
    IF Len(parts) < 2 THEN [exc |-> "IndexError", cls |-> <<>>]
    ELSE IF parts[Len(parts) - 1] = <<>> THEN [exc |-> "IndexError", cls |-> <<>>]
    ELSE [exc |-> "none",
          cls |-> StrUpper(<<parts[Len(parts) - 1][1]>>)
                      \o StrLower(Tail(parts[Len(parts) - 1]))]

\* AnonStackInterface._parse_class_from_resource; None has no split
_parse_class_from_resource(resource) ==
    IF resource.t # "str" THEN [exc |-> "AttributeError", cls |-> <<>>]
    ELSE ClassOfParts(DropBlankLast(SplitSlash(resource.s, <<>>)))

\* the item as it is handed back when it is not wrapped
Raw(item) == [wrapped |-> FALSE, rest_class |-> <<>>, endpoint |-> <<>>, fields |-> item]

\* the AnonStackObject made of an item
Wrapped(obj) ==
    [wrapped |-> TRUE, rest_class |-> obj.rest_class, endpoint |-> obj.endpoint,
     fields |-> obj.fields]

WrapParsed(item, p) ==
    IF p.exc # "none" THEN [exc |-> p.exc, warn |-> FALSE, res |-> Raw(item)]
    ELSE [exc |-> "none", warn |-> FALSE, res |-> Wrapped(AnonStackObject(p.cls, item))]

\* AnonStackInterface._wrap_rest_data_one
_wrap_rest_data_one(item) ==
    IF "resource" \notin DOMAIN item
    THEN [exc |-> "none", warn |-> TRUE, res |-> Raw(item)]
    ELSE WrapParsed(item, _parse_class_from_resource(item["resource"]))

\* objs.append(...) in the loop of _wrap_rest_data: an exception ends it
AppendWrapped(w, rest) ==
    IF w.exc # "none" THEN [exc |-> w.exc, warn |-> w.warn, objs |-> <<>>]
    ELSE IF rest.exc # "none" THEN [exc |-> rest.exc, warn |-> w.warn \/ rest.warn, objs |-> <<>>]
    ELSE [exc |-> "none", warn |-> w.warn \/ rest.warn, objs |-> <<w.res>> \o rest.objs]

RECURSIVE WrapFrom(_, _)
WrapFrom(items, i) ==
    IF i > Len(items) THEN [exc |-> "none", warn |-> FALSE, objs |-> <<>>]
    ELSE AppendWrapped(_wrap_rest_data_one(items[i]), WrapFrom(items, i + 1))

Shaped(shape, w) == [exc |-> w.exc, warn |-> w.warn, shape |-> shape, objs |-> w.objs]

\* AnonStackInterface._wrap_rest_data; data is a dict (shape "one", a single
\* item) or a list (shape "list")
_wrap_rest_data(data) == Shaped(data.shape, WrapFrom(data.items, 1))

\* the payload handed on when `data` is missing and nothing is raised
NoPayload == [shape |-> "one", items |-> <<EmptyDict>>]

\* an unwinding that raises nothing
UnwindAnything(result) ==
    [exc |-> "none", data |-> IF "data" \in DOMAIN result THEN result["data"] ELSE NoPayload]

\* AnonStackInterface._unwind_result
_unwind_result(result) ==
    IF "data" \notin DOMAIN result
    THEN [exc |-> "ValueError", data |-> NoPayload]
    ELSE [exc |-> "none", data |-> result["data"]]

Suffix(v) == IF v.t # "none" THEN Format(v) \o Slash ELSE <<>>

\* AnonStackInterface._versioned_endpoint
_versioned_endpoint(self_client, endpoint, id, action) ==
    <<"v">> \o self_client.version \o Slash \o endpoint \o Suffix(id) \o Suffix(action)

\* the test of both __getattr__: attr[0].isupper() and attr[1:].islower()
IsInterfaceName(attr) == StrIsUpper(<<attr[1]>>) /\ StrIsLower(Tail1(attr))

\* AnonStackObject._get_endpoint
_get_endpoint(self_client, self, action) ==
    (IF ~Truthy(DictGet(self.fields, "resource"))
     THEN _versioned_endpoint(self_client, self.endpoint, DictGet(self.fields, "id"), NoneV)
     ELSE Format(DictGet(self.fields, "resource")))
        \o Suffix(action)

\* a CREATE that never refuses
CreateAlways(fields) == FALSE

\* "resource = self.get('resource', None); if resource: raise ValueError"
CreateRefused(fields) == Truthy(DictGet(fields, "resource"))

\* a DELETE that never refuses
DeleteAlways(fields) == FALSE

\* "resource = self.get('resource'); if resource is None: raise ValueError"
DeleteRefused(fields) == DictGet(fields, "resource").t = "none"

(***************************************************************************)
(* Inputs                                                                  *)
(***************************************************************************)
\* StackApi.API_VERSION, '0.2'
API_VERSION == <<"0", ".", "2">>

\* the default entrypoint_uri of StackApi.__init__, abbreviated
ENTRYPOINT == <<"h", ":", "/", "/", "s">>

\* 'Stackdriver Python Client %s' % __version__, abbreviated
USERAGENT == StrV(<<"u", "a">>)

\* attribute names requested from ApiRoot and from interfaces
AttrNames ==
    {<<"A">>, <<"A", "b">>, <<"B", "1", "c">>, <<"A", "B">>, <<"a", "b">>,
     <<"A", "1">>, <<"_", "a">>}

r_ab1 == StrV(<<"/", "a", "b", "/", "1", "/">>)

r_short == StrV(<<"/", "1", "/">>)

r_empty == StrV(<<>>)

it_ab1 == [f \in {"resource", "id"} |-> IF f = "id" THEN IntV(1) ELSE r_ab1]

it_id2 == [f \in {"id"} |-> IntV(2)]

it_short == [f \in {"resource"} |-> r_short]

it_empty == [f \in {"resource"} |-> r_empty]

it_none == [f \in {"resource"} |-> NoneV]

\* the mappings a server returns as one object and a caller passes as data
Items == {it_ab1, it_id2, it_short, it_empty, it_none}

\* the mappings a server returns inside a list
ListItems == {it_ab1, it_id2, it_short}

RECURSIVE ListsUpTo(_)
ListsUpTo(n) ==
    IF n = 0 THEN {<<>>}
    ELSE ListsUpTo(n - 1)
            \cup {Append(l, it) : l \in {x \in ListsUpTo(n - 1) : Len(x) = n - 1},
                                  it \in ListItems}

\* the payloads of an envelope: one mapping or a list of mappings
Payloads ==
    {[shape |-> "one", items |-> <<it>>] : it \in Items}
        \cup {[shape |-> "list", items |-> l] : l \in ListsUpTo(MaxList)}

Envelope(p) == [t |-> "json", body |-> [key \in {"data"} |-> p]]

NoDataEnvelope == [t |-> "json", body |-> [key \in {"meta"} |-> EmptyDict]]

\* r.raise_for_status() raised: there is no body
HTTPError == [t |-> "error", body |-> EmptyDict]

\* what a verb of the client gives back: the parsed JSON body, an envelope
\* with or without `data`, or the HTTPError of raise_for_status
Responses == {HTTPError, NoDataEnvelope} \cup {Envelope(p) : p \in Payloads}

\* the responses given to the verbs that merge one mapping into the object
MergeResponses ==
    {HTTPError, NoDataEnvelope}
        \cup {Envelope([shape |-> "one", items |-> <<it>>]) : it \in Items}
        \cup {Envelope([shape |-> "list", items |-> <<it_ab1>>])}

\* the responses given to the verbs that hand the unwound data back as it is
RawResponses ==
    {HTTPError, NoDataEnvelope,
     Envelope([shape |-> "one", items |-> <<it_ab1>>]),
     Envelope([shape |-> "list", items |-> <<it_id2>>])}

h_apikey == "x-stackdriver-apikey"

HeaderArgs ==
    {NoDict,
     DictV([h \in {h_apikey} |-> StrV(<<"c">>)]),
     DictV([h \in {"foo"} |-> StrV(<<"b">>)])}

Ids == {NoneV, IntV(7)}

ActionArgs == {NoneV, StrV(<<"x">>)}

\* the data a caller passes when calling an interface
DataArgs == {NoDict} \cup {DictV(it) : it \in Items \cup {EmptyDict}}

\* the bodies a caller passes to POST and PUT
BodyArgs == {NoDict, DictV(it_id2)}

\* the spelling of the names a caller assigns and reads on an object
FieldChars ==
    [f \in {"id", "resource", "_x"} |->
        CASE f = "id" -> <<"i", "d">>
          [] f = "resource" -> <<"r", "e", "s", "o", "u", "r", "c", "e">>
          [] f = "_x" -> <<"_", "x">>]

\* the names a caller assigns as attributes; none of them is a member of the
\* classes AnonStackObject, AnonStackInterface or dict
SetAttrNames == {"id", "_x"}

\* the names a caller assigns by key
SetItemNames == {"id"}

\* the names a caller reads as attributes
GetAttrNames == {"id", "resource", "_x"}

\* the value a caller assigns as an attribute
AttrValues == {IntV(7)}

\* the value a caller assigns by key
ItemValues == {IntV(2)}

(***************************************************************************)
(* State                                                                   *)
(***************************************************************************)
VARIABLES
    client,     \* the RestApi instance StackApi._rest_client
    cur,        \* the receiver the caller holds: ApiRoot, an interface or an object
    origin,     \* history of the object in cur: the interface whose call built
                \* it, if one did, and whether a CREATE of it has succeeded
    last        \* the operation under way: receiver, arguments, calls made, outcome

vars == <<client, cur, origin, last>>

ApiRoot == [kind |-> "root"]

NoOrigin == [made |-> FALSE, endpoint |-> <<>>, created |-> FALSE]

Args(attr, data, id, action, headers, resp, k) ==
    [attr |-> attr, data |-> data, id |-> id, action |-> action, headers |-> headers,
     resp |-> resp, k |-> k]

NoArgs == Args(<<>>, NoDict, NoneV, NoneV, NoDict, HTTPError, 0)

NoRet == [kind |-> "none"]

Outcome(op, self, args, exc, ret, warn, c) ==
    [op |-> op, self |-> self, args |-> args, exc |-> exc, ret |-> ret, warn |-> warn,
     calls |-> c.calls, ctl |-> c.ctl, net |-> c.net, hdrOut |-> c.hdrOut]

\* no operation is under way: the caller is free to start one
NoOutcome == Outcome("ready", ApiRoot, NoArgs, "none", NoRet, FALSE, NoCall(NoDict))

\* number of interfaces on the way from ApiRoot to this one
Depth(iface) == Cardinality({i \in 1..Len(iface.endpoint) : iface.endpoint[i] = "/"})

\* how often a controller may call the wrapped verb
Retries == IF client.controller THEN 0..MaxRetry ELSE {1}

\* StackApi.__init__: the RestApi it builds, or the configuration error
StackApi(apikey, use_custom_headers, transport_controller, transport_userdata) ==
    IF ~Truthy(apikey) /\ ~use_custom_headers /\ ~transport_controller
    THEN [exc |-> "KeyError", client |-> NoneV]
    ELSE [exc |-> "none",
          client |-> RestApi(NormaliseEntrypoint(ENTRYPOINT), API_VERSION, apikey,
                             USERAGENT, transport_controller, transport_userdata)]

Constructed(api) == api.exc = "none" /\ client = api.client

Init ==
    /\ \E apikey \in {NoneV, StrV(<<"k">>)}, custom \in BOOLEAN, ctl \in BOOLEAN :
            Constructed(StackApi(apikey, custom, ctl, IF ctl THEN StrV(<<"u">>) ELSE NoneV))
    /\ cur = ApiRoot
    /\ origin = NoOrigin
    /\ last = NoOutcome

(***************************************************************************)
(* Operations                                                              *)
(***************************************************************************)
\* the operation raises: the receiver is as it was
Raise(op, args, exc, warn, c) ==
    /\ cur' = cur
    /\ origin' = origin
    /\ last' = Outcome(op, cur, args, exc, NoRet, warn, c)

\* the operation returns ret and the caller goes on with newcur
Return(op, args, ret, warn, c, newcur, neworigin) ==
    /\ cur' = newcur
    /\ origin' = neworigin
    /\ last' = Outcome(op, cur, args, "none", ret, warn, c)

\* the body of both __getattr__, self being ApiRoot or an interface
GetAttr(self, attr, endpoint_prefix) ==
    /\ origin' = IF IsInterfaceName(attr) THEN NoOrigin ELSE origin
    /\ cur' = IF IsInterfaceName(attr) THEN AnonStackInterface(attr, endpoint_prefix) ELSE cur
    /\ last' = IF IsInterfaceName(attr)
               THEN Outcome("getattr", self,
                            Args(attr, NoDict, NoneV, NoneV, NoDict, HTTPError, 0), "none",
                            [kind |-> "iface",
                             iface |-> AnonStackInterface(attr, endpoint_prefix)],
                            FALSE, NoCall(NoDict))
               ELSE Outcome("getattr", self,
                            Args(attr, NoDict, NoneV, NoneV, NoDict, HTTPError, 0),
                            "AttributeError", NoRet, FALSE, NoCall(NoDict))

\* StackApi.__getattr__
StackApi__getattr__ ==
    /\ last.op = "ready"
    /\ \E attr \in AttrNames : GetAttr(ApiRoot, attr, <<>>)
    /\ UNCHANGED client

\* AnonStackInterface.__getattr__
AnonStackInterface__getattr__ ==
    /\ last.op = "ready"
    /\ cur.kind = "iface"
    /\ \E attr \in AttrNames :
            /\ IsInterfaceName(attr) => Depth(cur) < MaxDepth
            /\ GetAttr(cur, attr, cur.endpoint)
    /\ UNCHANGED client

\* "if data is None: data = {}"
DataOrEmpty(data) == IF data.t = "none" THEN EmptyDict ELSE data.d

\* "if 'resource' in data: self._isrestclass(data['resource'], self._rest_class)":
\* the comparison is dropped, what is left is the exception of the parse
_isrestclass(d) ==
    IF "resource" \in DOMAIN d THEN _parse_class_from_resource(d["resource"]).exc ELSE "none"

CallChecked(data, chk) ==
    IF chk # "none"
    THEN Raise("call", Args(<<>>, data, NoneV, NoneV, NoDict, HTTPError, 0), chk, FALSE,
               NoCall(NoDict))
    ELSE Return("call", Args(<<>>, data, NoneV, NoneV, NoDict, HTTPError, 0),
                [kind |-> "obj", obj |-> AnonStackObject(cur.rest_class, DataOrEmpty(data))],
                FALSE, NoCall(NoDict), AnonStackObject(cur.rest_class, DataOrEmpty(data)),
                [made |-> TRUE, endpoint |-> cur.endpoint, created |-> FALSE])

\* AnonStackInterface.__call__
AnonStackInterface__call__ ==
    /\ last.op = "ready"
    /\ cur.kind = "iface"
    /\ \E data \in DataArgs : CallChecked(data, _isrestclass(DataOrEmpty(data)))
    /\ UNCHANGED client

\* the AnonStackObject a wrapped result is
ObjOf(res) ==
    [kind |-> "obj", rest_class |-> res.rest_class, endpoint |-> res.endpoint,
     fields |-> res.fields, attrs |-> EmptyDict]

\* "return self._wrap_rest_data(...)"; pick is the result the caller goes on
\* with (0: none of them, the caller keeps the interface)
GetWrapped(op, args, pick, c, w) ==
    IF w.exc # "none"
    THEN pick = 0 /\ Raise(op, args, w.exc, w.warn, c)
    ELSE \/ /\ pick = 0
            /\ Return(op, args, [kind |-> w.shape, objs |-> w.objs], w.warn, c, cur, origin)
         \/ /\ pick \in 1..Len(w.objs)
            /\ w.objs[pick].wrapped
            /\ Return(op, args, [kind |-> w.shape, objs |-> w.objs], w.warn, c,
                      ObjOf(w.objs[pick]), NoOrigin)

GetUnwound(op, args, pick, c, u) ==
    IF args.resp.t = "error" THEN pick = 0 /\ Raise(op, args, "HTTPError", FALSE, c)
    ELSE IF u.exc # "none" THEN pick = 0 /\ Raise(op, args, u.exc, FALSE, c)
    ELSE GetWrapped(op, args, pick, c, _wrap_rest_data(u.data))

\* the body of AnonStackInterface.GET
InterfaceGet(op, id, action, headers, resp, k, pick) ==
    GetUnwound(op, Args(<<>>, NoDict, id, action, headers, resp, k), pick,
               CallVerb(client, n_get, _versioned_endpoint(client, cur.endpoint, id, action),
                        NoDict, headers, k),
               _unwind_result(resp.body))

\* AnonStackInterface.GET
AnonStackInterface_GET ==
    /\ last.op = "ready"
    /\ cur.kind = "iface"
    /\ \E id \in Ids, action \in ActionArgs, headers \in HeaderArgs, resp \in Responses,
          k \in Retries, pick \in 0..MaxList :
            InterfaceGet("GET", id, action, headers, resp, k, pick)
    /\ UNCHANGED client

\* AnonStackInterface.LIST
AnonStackInterface_LIST ==
    /\ last.op = "ready"
    /\ cur.kind = "iface"
    /\ \E headers \in HeaderArgs, resp \in Responses, k \in Retries, pick \in 0..MaxList :
         InterfaceGet("LIST", NoneV, NoneV, headers, resp, k, pick)
    /\ UNCHANGED client

\* "result = self._unwind_result(resp); return result"
ReturnUnwound(op, args, c, u) ==
    IF args.resp.t = "error" THEN Raise(op, args, "HTTPError", FALSE, c)
    ELSE IF u.exc # "none" THEN Raise(op, args, u.exc, FALSE, c)
    ELSE Return(op, args, [kind |-> "raw", data |-> u.data], FALSE, c, cur, origin)

\* AnonStackInterface.POST
AnonStackInterface_POST ==
    /\ last.op = "ready"
    /\ cur.kind = "iface"
    /\ \E data \in BodyArgs, action \in ActionArgs, headers \in HeaderArgs,
          resp \in RawResponses, k \in Retries :
         ReturnUnwound("POST", Args(<<>>, data, NoneV, action, headers, resp, k),
                     CallVerb(client, n_post,
                              _versioned_endpoint(client, cur.endpoint, NoneV, action),
                              data, headers, k),
                     _unwind_result(resp.body))
    /\ UNCHANGED client

\* "data = self._unwind_result(resp); for key, value in data.iteritems():
\* self[key] = value; return self": a list has no iteritems
MergeUnwound(op, args, c, u) ==
    IF args.resp.t = "error" THEN Raise(op, args, "HTTPError", FALSE, c)
    ELSE IF u.exc # "none" THEN Raise(op, args, u.exc, FALSE, c)
    ELSE IF u.data.shape # "one" THEN Raise(op, args, "AttributeError", FALSE, c)
    ELSE Return(op, args, [kind |-> "self"], FALSE, c,
                [cur EXCEPT !.fields = DictMerge(@, u.data.items[1])],
                [origin EXCEPT !.created = @ \/ op = "CREATE"])

\* AnonStackObject.CREATE
AnonStackObject_CREATE ==
    /\ last.op = "ready"
    /\ cur.kind = "obj"
    /\ \E headers \in HeaderArgs, resp \in MergeResponses, k \in Retries :
       IF CreateRefused(cur.fields)
       THEN Raise("CREATE", Args(<<>>, NoDict, NoneV, NoneV, headers, resp, k), "ValueError",
                  FALSE, NoCall(headers))
       ELSE MergeUnwound("CREATE", Args(<<>>, NoDict, NoneV, NoneV, headers, resp, k),
                         CallVerb(client, n_post,
                                  _versioned_endpoint(client, cur.endpoint, NoneV, NoneV),
                                  DictV(cur.fields), headers, k),
                         _unwind_result(resp.body))
    /\ UNCHANGED client

\* AnonStackObject.PUT
AnonStackObject_PUT ==
    /\ last.op = "ready"
    /\ cur.kind = "obj"
    /\ \E data \in BodyArgs, action \in ActionArgs, headers \in HeaderArgs,
          resp \in RawResponses, k \in Retries :
         ReturnUnwound("PUT", Args(<<>>, data, NoneV, action, headers, resp, k),
                     CallVerb(client, n_put, _get_endpoint(client, cur, action), data,
                              headers, k),
                     _unwind_result(resp.body))
    /\ UNCHANGED client

\* AnonStackObject.GET
AnonStackObject_GET ==
    /\ last.op = "ready"
    /\ cur.kind = "obj"
    /\ \E action \in ActionArgs, headers \in HeaderArgs, resp \in RawResponses,
          k \in Retries :
         ReturnUnwound("OGET", Args(<<>>, NoDict, NoneV, action, headers, resp, k),
                     CallVerb(client, n_get, _get_endpoint(client, cur, action), NoDict,
                              headers, k),
                     _unwind_result(resp.body))
    /\ UNCHANGED client

\* AnonStackObject.DELETE
AnonStackObject_DELETE ==
    /\ last.op = "ready"
    /\ cur.kind = "obj"
    /\ \E headers \in HeaderArgs, resp \in MergeResponses, k \in Retries :
       IF DeleteRefused(cur.fields)
       THEN Raise("DELETE", Args(<<>>, NoDict, NoneV, NoneV, headers, resp, k), "ValueError",
                  FALSE, NoCall(headers))
       ELSE MergeUnwound("DELETE", Args(<<>>, NoDict, NoneV, NoneV, headers, resp, k),
                         CallVerb(client, n_delete, Format(DictGet(cur.fields, "resource")),
                                  NoDict, headers, k),
                         _unwind_result(resp.body))
    /\ UNCHANGED client

\* "if not attr.startswith('_'): self[attr] = value"
SetAttrMapping(fields, attr, value) ==
    IF ~StartsWith(FieldChars[attr], "_") THEN DictSet(fields, attr, value) ELSE fields

\* AnonStackObject.__setattr__: the mapping is written for a public name, and
\* "super(AnonStackObject, self).__setattr__(attr, value)" stores the value as
\* a plain attribute of the instance for every name
AnonStackObject__setattr__ ==
    /\ last.op = "ready"
    /\ cur.kind = "obj"
    /\ \E attr \in SetAttrNames, value \in AttrValues :
            Return("setattr",
                   Args(FieldChars[attr], DictV([f \in {attr} |-> value]), NoneV, NoneV,
                        NoDict, HTTPError, 0),
                   NoRet, FALSE, NoCall(NoDict),
                   [cur EXCEPT !.fields = SetAttrMapping(@, attr, value),
                               !.attrs = DictSet(@, attr, value)],
                   origin)
    /\ UNCHANGED client

\* dict.__setitem__ of an AnonStackObject, "obj[key] = value"
AnonStackObject__setitem__ ==
    /\ last.op = "ready"
    /\ cur.kind = "obj"
    /\ \E key \in SetItemNames, value \in ItemValues :
            Return("setitem",
                   Args(FieldChars[key], DictV([f \in {key} |-> value]), NoneV, NoneV,
                        NoDict, HTTPError, 0),
                   NoRet, FALSE, NoCall(NoDict),
                   [cur EXCEPT !.fields = DictSet(@, key, value)],
                   origin)
    /\ UNCHANGED client

\* AnonStackObject.__getattr__: "if not attr in self: raise AttributeError;
\* return self[attr]"
ObjectGetattr(self, attr) ==
    IF attr \notin DOMAIN self.fields THEN [exc |-> "AttributeError", value |-> NoneV]
    ELSE [exc |-> "none", value |-> self.fields[attr]]

\* the attribute read "obj.attr": a plain attribute of the instance is found
\* first, __getattr__ is called only when there is none
ReadAttr(self, attr) ==
    IF attr \in DOMAIN self.attrs THEN [exc |-> "none", value |-> self.attrs[attr]]
    ELSE ObjectGetattr(self, attr)

ReadDone(attr, r) ==
    IF r.exc # "none"
    THEN Raise("readattr",
               Args(FieldChars[attr], NoDict, NoneV, NoneV, NoDict, HTTPError, 0),
               r.exc, FALSE, NoCall(NoDict))
    ELSE Return("readattr",
                Args(FieldChars[attr], NoDict, NoneV, NoneV, NoDict, HTTPError, 0),
                [kind |-> "value", value |-> r.value], FALSE, NoCall(NoDict), cur, origin)

\* AnonStackObject.__getattr__, reached by reading an attribute of an object
AnonStackObject__getattr__ ==
    /\ last.op = "ready"
    /\ cur.kind = "obj"
    /\ \E attr \in GetAttrNames : ReadDone(attr, ReadAttr(cur, attr))
    /\ UNCHANGED client

\* the caller has the outcome of the operation and goes on
Continue ==
    /\ last.op # "ready"
    /\ last' = NoOutcome
    /\ UNCHANGED <<client, cur, origin>>

Next ==
    \/ StackApi__getattr__
    \/ AnonStackInterface__getattr__
    \/ AnonStackInterface__call__
    \/ AnonStackInterface_GET
    \/ AnonStackInterface_LIST
    \/ AnonStackInterface_POST
    \/ AnonStackObject_CREATE
    \/ AnonStackObject_PUT
    \/ AnonStackObject_GET
    \/ AnonStackObject_DELETE
    \/ AnonStackObject__setattr__
    \/ AnonStackObject__setitem__
    \/ AnonStackObject__getattr__
    \/ Continue

Spec == Init /\ [][Next]_vars

(***************************************************************************)
(* Properties                                                              *)
(***************************************************************************)
\* the response is an envelope that carries `data`
HasData(resp) == resp.t = "json" /\ "data" \in DOMAIN resp.body

\* the response is an envelope that lacks `data`
LacksData(resp) == resp.t = "json" /\ "data" \notin DOMAIN resp.body

\* a resource value that is a string of at least one character
NonEmptyResource(fields) ==
    /\ "resource" \in DOMAIN fields
    /\ fields["resource"].t = "str"
    /\ Len(fields["resource"].s) > 0

Refused == last.exc = "ValueError" /\ last.calls = <<>> /\ last.net = <<>> /\ cur = last.self

\* C1 as stated: CREATE on an object whose mapping carries a `resource`
\* field, whatever its value, raises ValueError and issues no POST.
C1_AsStated ==
    (last.op = "CREATE" /\ "resource" \in DOMAIN last.self.fields) => Refused

\* C1 amended: CREATE on an object whose mapping carries a non-empty
\* `resource` value raises ValueError and issues no POST, and a successful
\* CREATE whose response carried a non-empty `resource` leaves the object
\* carrying it, so that the next CREATE is refused: one POST in total.
C1_CreateRefusedOncePersisted ==
    /\ (last.op = "CREATE" /\ NonEmptyResource(last.self.fields)) => Refused
    /\ (last.op = "CREATE" /\ last.exc = "none"
            /\ NonEmptyResource(last.args.resp.body["data"].items[1]))
        => /\ NonEmptyResource(cur.fields)
           /\ cur.fields["resource"] = last.args.resp.body["data"].items[1]["resource"]
           /\ Len(last.calls) = 1

\* a second CREATE on an object a first CREATE has persisted is refused
C1_Witness ==
    /\ last.op = "CREATE"
    /\ origin.made
    /\ origin.created
    /\ DictGet(last.self.fields, "resource") = r_ab1
    /\ Refused

\* C2 as stated: DELETE without a `resource` field raises ValueError, calls
\* no verb and leaves the mapping alone; with a `resource` field present
\* exactly one DELETE goes to that path.
C2_AsStated ==
    last.op = "DELETE" =>
        IF "resource" \notin DOMAIN last.self.fields
        THEN Refused
        ELSE /\ Len(last.calls) = 1
             /\ last.calls[1].verb = n_delete
             /\ StrV(last.calls[1].endpoint) = last.self.fields["resource"]

\* C2 amended: DELETE is refused (ValueError, no verb called, mapping as it
\* was) when the `resource` field is missing or None; with any other
\* `resource` value exactly one DELETE goes to that path.
C2_DeleteNeedsResource ==
    last.op = "DELETE" =>
        IF "resource" \notin DOMAIN last.self.fields \/ last.self.fields["resource"] = NoneV
        THEN Refused
        ELSE /\ Len(last.calls) = 1
             /\ last.calls[1].verb = n_delete
             /\ StrV(last.calls[1].endpoint) = last.self.fields["resource"]

\* a DELETE refused on an object that holds fields but no `resource`
C2_Witness ==
    /\ last.op = "DELETE"
    /\ "resource" \notin DOMAIN last.self.fields
    /\ "id" \in DOMAIN last.self.fields
    /\ Refused

PublicVerbs == {n_get, n_post, n_put, n_delete}

\* C3: with a transport controller, each public verb is wrapped once and no
\* other member is wrapped; a verb call invokes the controller once, with
\* the undecorated verb, the userdata and the arguments of the call, and
\* the transport is requested as often as the controller calls the verb.
C3_ControllerOncePerCall ==
    client.controller =>
        /\ \A n \in DOMAIN client.members :
                client.members[n].layers = IF n \in PublicVerbs THEN 1 ELSE 0
        /\ last.calls # <<>> =>
            /\ Len(last.calls) = 1
            /\ Len(last.ctl) = 1
            /\ last.ctl[1].transport_func = [verb |-> last.calls[1].verb, layers |-> 0]
            /\ last.ctl[1].userdata = client.userdata
            /\ last.ctl[1].func_args = <<last.calls[1].endpoint>>
            /\ last.ctl[1].func_kwargs =
                    [body |-> last.calls[1].body, headers |-> last.calls[1].headers]
            /\ Len(last.net) = last.args.k
            /\ \A i \in 1..Len(last.net) : last.net[i].verb = last.calls[1].verb

\* a controller that calls the wrapped verb twice in one CREATE
C3_Witness ==
    /\ client.controller
    /\ last.op = "CREATE"
    /\ last.args.k = 2
    /\ Len(last.ctl) = 1
    /\ Len(last.net) = 2

UnwindOps == {"GET", "LIST", "POST", "CREATE", "OGET", "PUT", "DELETE"}

\* C4: for every verb that unwinds, a response without `data` raises
\* ValueError, nothing is returned and the receiver is as it was.
C4_MissingDataRaises ==
    (last.op \in UnwindOps /\ last.calls # <<>> /\ LacksData(last.args.resp)) =>
        /\ last.exc = "ValueError"
        /\ last.ret = NoRet
        /\ cur = last.self

\* a DELETE of a persisted object answered without `data`
C4_Witness ==
    /\ last.op = "DELETE"
    /\ LacksData(last.args.resp)
    /\ last.exc = "ValueError"
    /\ cur.fields = it_ab1

\* the resource has the form /<type>/<id>/
MatchesPattern(v) ==
    /\ v.t = "str"
    /\ Len(SplitSlash(v.s, <<>>)) = 4
    /\ SplitSlash(v.s, <<>>)[1] = <<>>
    /\ SplitSlash(v.s, <<>>)[2] # <<>>
    /\ SplitSlash(v.s, <<>>)[3] # <<>>
    /\ SplitSlash(v.s, <<>>)[4] = <<>>

\* the item carries a resource of the form /<type>/<id>/
WellFormed(item) == "resource" \in DOMAIN item /\ MatchesPattern(item["resource"])

\* an interface GET or LIST that was answered with an envelope carrying data
GotData == last.op \in {"GET", "LIST"} /\ last.calls # <<>> /\ HasData(last.args.resp)

GotItems == last.args.resp.body["data"].items

\* C5: GET/LIST keeps the shape of `data`: one object gives one result, a
\* list of n items gives n results in the order of the server, the i-th
\* built from the i-th item; an item with resource /ab/1/ becomes an object
\* of type Ab with endpoint ab/.
C5_ShapePreserved ==
    GotData =>
        /\ last.exc = "none"
        /\ last.ret.kind = last.args.resp.body["data"].shape
        /\ Len(last.ret.objs) = Len(GotItems)
        /\ \A i \in 1..Len(GotItems) :
            /\ last.ret.objs[i].fields = GotItems[i]
            /\ DictGet(GotItems[i], "resource") = r_ab1 =>
                /\ last.ret.objs[i].wrapped
                /\ last.ret.objs[i].rest_class = <<"A", "b">>
                /\ last.ret.objs[i].endpoint = <<"a", "b", "/">>

\* the lowercased path segment of the names the code takes
LowerSegment(attr) ==
    CASE attr = <<"A", "b">> -> <<"a", "b", "/">>
      [] attr = <<"B", "1", "c">> -> <<"b", "1", "c", "/">>
      [] OTHER -> <<"?">>

IdPart(id) == IF id = IntV(7) THEN <<"7", "/">> ELSE <<>>

ActionPart(action) == IF action = StrV(<<"x">>) THEN <<"x", "/">> ELSE <<>>

\* the path interface GET is to ask for
GetPath ==
    <<"v", "0", ".", "2", "/">> \o last.self.endpoint \o IdPart(last.args.id)
        \o ActionPart(last.args.action)

CallerGaveKey == last.args.headers.t = "dict" /\ h_apikey \in DOMAIN last.args.headers.d

\* C7: a verb call leaves the caller's headers mapping as it was, and with
\* no api key configured the merged headers carry x-stackdriver-apikey only
\* if the caller supplied it.
C7_HeadersUntouched ==
    /\ last.hdrOut = last.args.headers
    /\ client.apikey = NoneV =>
        \A i \in 1..Len(last.net) :
            /\ h_apikey \in DOMAIN last.net[i].headers <=> CallerGaveKey
            /\ CallerGaveKey => last.net[i].headers[h_apikey] = last.args.headers.d[h_apikey]

\* a request made with the caller's own headers and no api key configured
C7_Witness ==
    /\ client.apikey = NoneV
    /\ last.op = "PUT"
    /\ last.net # <<>>
    /\ last.args.headers = DictV([h \in {"foo"} |-> StrV(<<"b">>)])
    /\ h_apikey \notin DOMAIN last.net[1].headers
    /\ "x-stackdriver-version" \in DOMAIN last.net[1].headers
    /\ last.hdrOut = last.args.headers

\* first character uppercase, every remaining character lowercase (none
\* remain in a name of length one)
ClaimedInterfaceName(attr) ==
    /\ attr[1] \in UpperChars
    /\ \A i \in 2..Len(attr) : attr[i] \in LowerChars

\* C8: an undefined attribute yields an interface exactly when its first
\* character is uppercase and all the remaining ones are lowercase; any
\* other name raises AttributeError and makes no interface.
C8_NamePattern ==
    last.op = "getattr" =>
        /\ last.exc = "none" <=> ClaimedInterfaceName(last.args.attr)
        /\ last.exc = "none" =>
            /\ cur = last.ret.iface
            /\ cur.rest_class = last.args.attr
        /\ last.exc # "none" => (last.exc = "AttributeError" /\ last.ret = NoRet)

\* C9: calling an interface I with data calls no verb, and CREATE on the
\* object it made issues one POST to v<version>/<I's endpoint>, merges the
\* returned fields into the object and returns it.
C9_CreatePostsToInterface ==
    /\ last.op = "call" => (last.calls = <<>> /\ last.net = <<>>)
    /\ (last.op = "CREATE" /\ origin.made /\ "resource" \notin DOMAIN last.self.fields) =>
        /\ Len(last.calls) = 1
        /\ last.calls[1].verb = n_post
        /\ last.calls[1].endpoint = <<"v", "0", ".", "2", "/">> \o origin.endpoint
        /\ last.exc = "none" =>
            /\ last.ret = [kind |-> "self"]
            /\ \A f \in DOMAIN GotItems[1] : cur.fields[f] = GotItems[1][f]

\* C10: an item without a `resource`, or with one that is not of the form
\* /<type>/<id>/, comes back as the raw mapping with a warning and nothing
\* is raised; the other items are wrapped.
C10_MalformedDegrades ==
    GotData =>
        /\ last.exc = "none"
        /\ Len(last.ret.objs) = Len(GotItems)
        /\ \A i \in 1..Len(GotItems) :
            /\ last.ret.objs[i].fields = GotItems[i]
            /\ last.ret.objs[i].wrapped <=> WellFormed(GotItems[i])
            /\ ~WellFormed(GotItems[i]) => last.warn


\* the field of the mapping that an attribute read asked for
ReadField == {f \in DOMAIN last.self.fields : FieldChars[f] = last.args.attr}

\* C11: after any sequence of attribute assignments, keyed assignments and
\* CREATE/DELETE merges on an object, reading a field of the mapping whose name
\* does not start with `_` as an attribute gives the value the keyed lookup
\* gives (the value of the server after a merge wrote over a field set
\* locally), and no name starting with `_` that was assigned as an attribute
\* is an entry of the mapping.
C11_AttributeIsKeyedValue ==
    /\ (last.op = "readattr" /\ ~StartsWith(last.args.attr, "_")) =>
            \A f \in ReadField :
                /\ last.exc = "none"
                /\ last.ret.value = last.self.fields[f]
    /\ cur.kind = "obj" =>
            \A f \in DOMAIN cur.attrs :
                StartsWith(FieldChars[f], "_") => f \notin DOMAIN cur.fields

====
